---- MODULE Spec2Model ----
(***************************************************************************)
(* pytest-tzshift: the parametrization engine (pytest_generate_tests and   *)
(* its helpers) and the tzshift fixture, modelled from                     *)
(* src/src/pytest_tzshift/plugin.py.                                       *)
(*                                                                         *)
(* Python strings are sequences of one-character strings, so that strip()  *)
(* and upper() are computed, not assumed.  An optional value (None or a    *)
(* value) is a sequence of length 0 or 1.                                  *)
(***************************************************************************)
EXTENDS Integers, Sequences, FiniteSets, TLC

\* ------------------------------------------------------------------ bounds
\* markers attached to one test (function, then enclosing scopes)
MaxMarkers == 2
\* tests collected in one session
MaxTests == 2
\* fixture executions in one session
MaxRuns == 2
\* host mutations made by one test body
MaxBodySteps == 1

\* ----------------------------------------------------------------- strings
None == <<>>
Some(x) == <<x>>
TheVal(o) == o[1]

sSYSTEM == <<"S", "Y", "S", "T", "E", "M">>
sSystemWs == <<" ", "s", "y", "s", "t", "e", "m", " ">>
sSyStEmTab == <<"\t", "S", "y", "S", "t", "E", "m">>
sSystemLower == <<"s", "y", "s", "t", "e", "m">>
sEmpty == <<>>
sSys == <<"s", "y", "s">>
sUTC == <<"U", "T", "C">>
sGMT == <<"G", "M", "T">>
sZulu == <<"Z", "u", "l", "u">>
sMalformed == <<"U", "T", "C", "/">>
sBadZone == <<"X", "/", "Y">>
sC == <<"C">>
sDe == <<"d", "e", "_", "D", "E">>
sXx == <<"x", "x", "_", "Y", "Y">>

SYSTEM_TZ == sSYSTEM
SYSTEM_LOCALE == sSYSTEM

Whitespace == {" ", "\t", "\n", "\r"}
LowerLetters == <<"a", "b", "c", "d", "e", "f", "g", "h", "i", "j", "k", "l", "m",
                  "n", "o", "p", "q", "r", "s", "t", "u", "v", "w", "x", "y", "z">>
UpperLetters == <<"A", "B", "C", "D", "E", "F", "G", "H", "I", "J", "K", "L", "M",
                  "N", "O", "P", "Q", "R", "S", "T", "U", "V", "W", "X", "Y", "Z">>

\* str.upper(), one character
UpperChar(c) ==
    IF \E i \in DOMAIN LowerLetters : LowerLetters[i] = c
    THEN UpperLetters[CHOOSE i \in DOMAIN LowerLetters : LowerLetters[i] = c]
    ELSE c

\* str.upper()
Upper(s) == [i \in DOMAIN s |-> UpperChar(s[i])]

RECURSIVE LStrip(_)
LStrip(s) ==
    IF s = <<>> THEN s
    ELSE IF Head(s) \in Whitespace THEN LStrip(Tail(s)) ELSE s

RECURSIVE RStrip(_)
RStrip(s) ==
    IF s = <<>> THEN s
    ELSE IF s[Len(s)] \in Whitespace THEN RStrip(SubSeq(s, 1, Len(s) - 1)) ELSE s

\* str.strip()
Strip(s) == RStrip(LStrip(s))

\* plugin.py 26
SentinelText(stripped, sentinel) == stripped = <<>> \/ Upper(stripped) = sentinel

\* a mutant of _is_system_sentinel: the value is compared without strip()
IsSentinelNoStrip(val, sentinel) ==
    IF val = None THEN FALSE
    ELSE TheVal(val) = <<>> \/ Upper(TheVal(val)) = sentinel

\* val is an optional string
_is_system_sentinel(val, sentinel) ==
    IF val = None THEN FALSE
    ELSE SentinelText(Strip(TheVal(val)), sentinel)

\* -------------------------------------------------------------------- host
\* the locales the host may have installed; "C" always is
HostLocales == {sC, sDe}
\* the host's time-zone database
TzDb == {sUTC, sGMT, sZulu}

VARIABLES
    \* host, process-wide
    environ_TZ,        \* os.environ.get("TZ"): None or Some(string)
    cur_locale,        \* what locale.setlocale(LC_ALL) returns
    installed,         \* the locales locale.setlocale(LC_ALL, x) accepts
    time_tz,           \* the zone the time subsystem uses (set by time.tzset())
    has_tzset,         \* hasattr(time, "tzset")
    \* one execution of the tzshift fixture
    pc,                \* idle | apply_locale | apply_tz | running | restoring
    param,             \* request.param: None or Some(<<tz, loc>>)
    tz, loc,           \* the fixture's locals
    original_tz, original_locale,
    yielded,           \* None or Some(TzShift(tz, loc))
    outcome,           \* none | skipped_by_fixture | passed | failed | skipped | error
    trace,             \* the host calls the fixture made in this execution
    bodySteps, runIdx,
    pre,               \* the host state immediately before this execution
    \* collection (pytest_generate_tests), one session
    config,            \* command line and ini file
    lru,               \* the lru_cache of _locale_is_available
    gpc,               \* idle | collected | aborted
    nTests,
    test_node,         \* the tzshift markers of the test being collected
    uses_fixture,      \* "tzshift" in metafunc.fixturenames
    gen                \* what pytest_generate_tests did for that test

hostVars == <<environ_TZ, cur_locale, installed, time_tz, has_tzset>>
fixVars == <<pc, param, tz, loc, original_tz, original_locale, yielded, outcome,
             trace, bodySteps, runIdx, pre>>
genVars == <<config, lru, gpc, nTests, test_node, uses_fixture, gen>>
vars == <<hostVars, fixVars, genVars>>

Call(op, arg, ok) == [op |-> op, arg |-> arg, ok |-> ok]

\* the values a request.param may carry
TzParams == {sSYSTEM, sSystemWs, sEmpty, sUTC, sGMT}
LocParams == {sSYSTEM, sSyStEmTab, sEmpty, sC, sDe, sXx}
ParamChoices == {None} \cup {Some(<<t, l>>) : t \in TzParams, l \in LocParams}
\* what TZ may hold before a run, or be set to by a test body
TzEnvValues == {None, Some(sEmpty), Some(sUTC), Some(sZulu)}

HostInit ==
    /\ installed \in {{sC}, {sC, sDe}}
    /\ cur_locale \in installed
    /\ environ_TZ \in TzEnvValues
    /\ time_tz = environ_TZ
    /\ has_tzset \in BOOLEAN

FixtureIdle ==
    /\ pc = "idle"
    /\ param = None
    /\ tz = SYSTEM_TZ
    /\ loc = SYSTEM_LOCALE
    /\ original_tz = None
    /\ original_locale = sC
    /\ yielded = None
    /\ outcome = "none"
    /\ trace = <<>>
    /\ bodySteps = 0
    /\ runIdx = 0
    /\ pre = [TZ |-> None, locale |-> sC]

\* time.tzset() when the platform has it
TzsetCalls == IF has_tzset THEN <<Call("tzset", None, TRUE)>> ELSE <<>>
AfterTzset(env) == IF has_tzset THEN env ELSE time_tz

\* plugin.py 375-378: the pair of a run, (SYSTEM, SYSTEM) without request.param
ParamPair(p) == IF p # None THEN TheVal(p) ELSE <<SYSTEM_TZ, SYSTEM_LOCALE>>

\* plugin.py 375-381: the pair, then the snapshot
FixtureEnter ==
    /\ pc = "idle"
    /\ runIdx < MaxRuns
    /\ \E p \in ParamChoices :
        /\ param' = p
        /\ tz' = ParamPair(p)[1]
        /\ loc' = ParamPair(p)[2]
    /\ original_tz' = environ_TZ
    /\ original_locale' = cur_locale
    /\ pre' = [TZ |-> environ_TZ, locale |-> cur_locale]
    /\ trace' = <<Call("environ.get", None, TRUE), Call("setlocale.query", None, TRUE)>>
    /\ yielded' = None
    /\ outcome' = "none"
    /\ bodySteps' = 0
    /\ runIdx' = runIdx + 1
    /\ pc' = "apply_locale"
    /\ UNCHANGED <<hostVars, genVars>>

\* a mutant of ApplyLocale: a rejected locale is ignored and the run goes on
ApplyLocaleNoSkip ==
    /\ pc = "apply_locale"
    /\ IF _is_system_sentinel(Some(loc), SYSTEM_LOCALE)
       THEN UNCHANGED <<cur_locale, trace>>
       ELSE /\ cur_locale' = IF loc \in installed THEN loc ELSE cur_locale
            /\ trace' = Append(trace, Call("setlocale", Some(loc), loc \in installed))
    /\ pc' = "apply_tz"
    /\ UNCHANGED <<outcome, environ_TZ, installed, time_tz, has_tzset, param, tz, loc,
                   original_tz, original_locale, yielded, bodySteps, runIdx, pre>>
    /\ UNCHANGED genVars

\* plugin.py 383-388: apply locale first; locale.Error becomes pytest.skip
ApplyLocale ==
    /\ pc = "apply_locale"
    /\ IF _is_system_sentinel(Some(loc), SYSTEM_LOCALE)
       THEN /\ pc' = "apply_tz"
            /\ UNCHANGED <<cur_locale, trace, outcome>>
       ELSE IF loc \in installed
       THEN /\ cur_locale' = loc
            /\ trace' = Append(trace, Call("setlocale", Some(loc), TRUE))
            /\ pc' = "apply_tz"
            /\ UNCHANGED outcome
       ELSE /\ trace' = trace \o <<Call("setlocale", Some(loc), FALSE),
                                   Call("skip", Some(loc), TRUE)>>
            /\ outcome' = "skipped_by_fixture"
            /\ pc' = "idle"
            /\ UNCHANGED cur_locale
    /\ UNCHANGED <<environ_TZ, installed, time_tz, has_tzset, param, tz, loc,
                   original_tz, original_locale, yielded, bodySteps, runIdx, pre>>
    /\ UNCHANGED genVars

\* plugin.py 390-398: then the time zone, tzset, and the yield
ApplyTz ==
    /\ pc = "apply_tz"
    /\ LET set == ~_is_system_sentinel(Some(tz), SYSTEM_TZ)
           env == IF set THEN Some(tz) ELSE environ_TZ
       IN  /\ environ_TZ' = env
           /\ time_tz' = AfterTzset(env)
           /\ trace' = trace
                       \o (IF set THEN <<Call("environ.set", Some(tz), TRUE)>> ELSE <<>>)
                       \o TzsetCalls
                       \o <<Call("yield", None, TRUE)>>
    /\ yielded' = Some(<<tz, loc>>)
    /\ pc' = "running"
    /\ UNCHANGED <<cur_locale, installed, has_tzset, param, tz, loc, original_tz,
                   original_locale, outcome, bodySteps, runIdx, pre>>
    /\ UNCHANGED genVars

\* the test body may set or delete TZ
BodySetTZ ==
    /\ pc = "running"
    /\ bodySteps < MaxBodySteps
    /\ \E v \in TzEnvValues : v # environ_TZ /\ environ_TZ' = v
    /\ bodySteps' = bodySteps + 1
    /\ UNCHANGED <<cur_locale, installed, time_tz, has_tzset, pc, param, tz, loc,
                   original_tz, original_locale, yielded, outcome, trace, runIdx, pre>>
    /\ UNCHANGED genVars

\* the test body may switch the locale
BodySetLocale ==
    /\ pc = "running"
    /\ bodySteps < MaxBodySteps
    /\ \E l \in installed : l # cur_locale /\ cur_locale' = l
    /\ bodySteps' = bodySteps + 1
    /\ UNCHANGED <<environ_TZ, installed, time_tz, has_tzset, pc, param, tz, loc,
                   original_tz, original_locale, yielded, outcome, trace, runIdx, pre>>
    /\ UNCHANGED genVars

\* the test body returns or raises
BodyEnd ==
    /\ pc = "running"
    /\ \E o \in {"passed", "failed", "skipped", "error"} : outcome' = o
    /\ pc' = "restoring"
    /\ UNCHANGED <<hostVars, param, tz, loc, original_tz, original_locale, yielded,
                   trace, bodySteps, runIdx, pre>>
    /\ UNCHANGED genVars

\* a mutant of Teardown: an absent TZ is restored as the empty string
TeardownSetsEmpty ==
    /\ pc = "restoring"
    /\ cur_locale' = original_locale
    /\ environ_TZ' = IF original_tz = None THEN Some(sEmpty) ELSE original_tz
    /\ time_tz' = AfterTzset(environ_TZ')
    /\ trace' = trace \o <<Call("setlocale", Some(original_locale), TRUE),
                           Call("environ.set", environ_TZ', TRUE)>> \o TzsetCalls
    /\ pc' = "idle"
    /\ UNCHANGED <<installed, has_tzset, param, tz, loc, original_tz, original_locale,
                   yielded, outcome, bodySteps, runIdx, pre>>
    /\ UNCHANGED genVars

\* a mutant of Teardown: the locale is left as the run set it
TeardownKeepsLocale ==
    /\ pc = "restoring"
    /\ environ_TZ' = original_tz
    /\ time_tz' = AfterTzset(original_tz)
    /\ trace' = trace
                \o (IF original_tz = None
                    THEN <<Call("environ.pop", None, TRUE)>>
                    ELSE <<Call("environ.set", original_tz, TRUE)>>)
                \o TzsetCalls
    /\ pc' = "idle"
    /\ UNCHANGED <<cur_locale, installed, has_tzset, param, tz, loc, original_tz,
                   original_locale, yielded, outcome, bodySteps, runIdx, pre>>
    /\ UNCHANGED genVars

\* plugin.py 399-408: the finally block
Teardown ==
    /\ pc = "restoring"
    /\ cur_locale' = original_locale
    /\ environ_TZ' = original_tz
    /\ time_tz' = AfterTzset(original_tz)
    /\ trace' = trace
                \o <<Call("setlocale", Some(original_locale), TRUE)>>
                \o (IF original_tz = None
                    THEN <<Call("environ.pop", None, TRUE)>>
                    ELSE <<Call("environ.set", original_tz, TRUE)>>)
                \o TzsetCalls
    /\ pc' = "idle"
    /\ UNCHANGED <<installed, has_tzset, param, tz, loc, original_tz, original_locale,
                   yielded, outcome, bodySteps, runIdx, pre>>
    /\ UNCHANGED genVars

\* ------------------------------------------------------------ collection
\* a warning handed to warnings.warn
Warning(kind, names, kept, total) ==
    [kind |-> kind, names |-> names, kept |-> kept, total |-> total]

\* list(dict.fromkeys(values)): first occurrences, in order
RECURSIVE DedupFrom(_, _, _)
DedupFrom(values, i, acc) ==
    IF i > Len(values) THEN acc
    ELSE DedupFrom(values, i + 1,
                   IF \E j \in DOMAIN acc : acc[j] = values[i]
                   THEN acc ELSE Append(acc, values[i]))
Dedup(values) == DedupFrom(values, 1, <<>>)

\* str.split(","): the pieces between commas, empty pieces included
RECURSIVE SplitFrom(_, _, _, _)
SplitFrom(s, i, piece, acc) ==
    IF i > Len(s) THEN Append(acc, piece)
    ELSE IF s[i] = ","
    THEN SplitFrom(s, i + 1, <<>>, Append(acc, piece))
    ELSE SplitFrom(s, i + 1, Append(piece, s[i]), acc)
SplitComma(s) == SplitFrom(s, 1, <<>>, <<>>)

\* [x.strip() for x in pieces if x.strip()]
RECURSIVE StripNonEmpty(_)
StripNonEmpty(pieces) ==
    IF pieces = <<>> THEN <<>>
    ELSE IF Strip(Head(pieces)) = <<>> THEN StripNonEmpty(Tail(pieces))
    ELSE <<Strip(Head(pieces))>> \o StripNonEmpty(Tail(pieces))

\* a mutant of _cli_or_ini: the pieces of the command-line string are not trimmed
CliOrIniUntrimmed(cli, ini) ==
    Dedup(IF cli # None
          THEN SelectSeq(SplitComma(TheVal(cli)), LAMBDA x : Strip(x) # <<>>)
          ELSE ini)

\* plugin.py 269-280; cli is an optional string, ini a list
_cli_or_ini(cli, ini) ==
    Dedup(IF cli # None THEN StripNonEmpty(SplitComma(TheVal(cli))) ELSE ini)

get_configured_timezones(cfg) == _cli_or_ini(cfg.cli_tz, cfg.ini_tz)
get_configured_locales(cfg) == _cli_or_ini(cfg.cli_loc, cfg.ini_loc)

\* plugin.py 158, ZoneInfo(tz): the zone is found, or the constructor raises
\* ZoneInfoNotFoundError for a key the database lacks, or ValueError for a key
\* that is no normalized relative path (an absolute path, a trailing slash)
IsMalformedKey(key) == key # <<>> /\ (Head(key) = "/" \/ key[Len(key)] = "/")
ZoneInfo(key) ==
    IF IsMalformedKey(key) THEN "ValueError"
    ELSE IF key \in TzDb THEN "" ELSE "ZoneInfoNotFoundError"

\* plugin.py 153-161: the loop; only ZoneInfoNotFoundError is caught, any other
\* exception ends the call
RECURSIVE FilterTzFrom(_, _, _)
FilterTzFrom(tzs, i, acc) ==
    IF i > Len(tzs) THEN acc
    ELSE IF _is_system_sentinel(Some(tzs[i]), SYSTEM_TZ)
    THEN FilterTzFrom(tzs, i + 1, [acc EXCEPT !.valid = Append(@, SYSTEM_TZ)])
    ELSE IF ZoneInfo(tzs[i]) = ""
    THEN FilterTzFrom(tzs, i + 1,
             [acc EXCEPT !.valid = Append(@, tzs[i]),
                         !.calls = Append(@, Call("ZoneInfo", Some(tzs[i]), TRUE))])
    ELSE IF ZoneInfo(tzs[i]) = "ZoneInfoNotFoundError"
    THEN FilterTzFrom(tzs, i + 1,
             [acc EXCEPT !.bad = Append(@, tzs[i]),
                         !.calls = Append(@, Call("ZoneInfo", Some(tzs[i]), FALSE))])
    ELSE [acc EXCEPT !.raised = ZoneInfo(tzs[i]),
                     !.calls = Append(@, Call("ZoneInfo", Some(tzs[i]), FALSE))]

\* plugin.py 163-168; a call that raised returns nothing and warns of nothing
TzWarned(r) ==
    IF r.raised # ""
    THEN [valid |-> <<>>, bad |-> <<>>, calls |-> r.calls, warns |-> <<>>,
          raised |-> r.raised]
    ELSE [valid |-> r.valid, bad |-> r.bad, calls |-> r.calls,
          warns |-> IF r.bad # <<>> THEN <<Warning("unknown_tz", r.bad, 0, 0)>> ELSE <<>>,
          raised |-> ""]

\* one call of a validator, as the session saw it: raised is the exception that
\* ended it, "" when it returned
Validation(kind, input, valid, bad, warns, raised) ==
    [kind |-> kind, input |-> input, valid |-> valid, bad |-> bad, warns |-> warns,
     raised |-> raised]

\* the session after _filter_valid_timezones(input) ended in r
AfterTz(st, input, r) ==
    [st EXCEPT !.calls = @ \o r.calls,
               !.warns = @ \o r.warns,
               !.vals = Append(@, Validation("tz", input, r.valid, r.bad, r.warns,
                                             r.raised))]

_filter_valid_timezones(tzs) ==
    TzWarned(FilterTzFrom(tzs, 1, [valid |-> <<>>, bad |-> <<>>, calls |-> <<>>,
                                   raised |-> ""]))

\* a mutant of Probe: a probe that succeeded is not rolled back
ProbeNoRollback(l, st, original_locale_, ok) ==
    [res |-> ok,
     st |-> [st EXCEPT !.lru = (l :> ok) @@ @,
                       !.locale = IF ok THEN l ELSE original_locale_,
                       !.calls = @ \o <<Call("setlocale.query", None, TRUE),
                                        Call("setlocale", Some(l), ok)>>]]

\* plugin.py 212-223: snapshot, try, roll back; ok is whether the host accepts l
Probe(l, st, original_locale_, ok) ==
    [res |-> ok,
     st |-> [st EXCEPT !.lru = (l :> ok) @@ @,
                       !.locale = original_locale_,
                       !.calls = @ \o <<Call("setlocale.query", None, TRUE),
                                        Call("setlocale", Some(l), ok),
                                        Call("setlocale", Some(original_locale_), TRUE)>>]]

\* a mutant of _locale_is_available: no cache is consulted
LocaleIsAvailableUncached(l, st, inst) ==
    IF _is_system_sentinel(Some(l), SYSTEM_LOCALE)
    THEN [res |-> TRUE, st |-> [st EXCEPT !.lru = (l :> TRUE) @@ @]]
    ELSE Probe(l, st, st.locale, l \in inst)

\* plugin.py 204-223 under functools.lru_cache: st carries the cache, the
\* active locale and the host calls made so far
_locale_is_available(l, st, inst) ==
    IF l \in DOMAIN st.lru
    THEN [res |-> st.lru[l], st |-> st]
    ELSE IF _is_system_sentinel(Some(l), SYSTEM_LOCALE)
    THEN [res |-> TRUE, st |-> [st EXCEPT !.lru = (l :> TRUE) @@ @]]
    ELSE Probe(l, st, st.locale, l \in inst)

\* plugin.py 236-242: p is what _locale_is_available returned
LocStep(l, acc, p) ==
    IF p.res
    THEN [acc EXCEPT !.st = p.st,
                     !.valid = Append(@, IF _is_system_sentinel(Some(l), SYSTEM_LOCALE)
                                         THEN SYSTEM_LOCALE ELSE l)]
    ELSE [acc EXCEPT !.st = p.st, !.bad = Append(@, l)]

\* plugin.py 235-242: the loop
RECURSIVE FilterLocFrom(_, _, _, _)
FilterLocFrom(locs, i, acc, inst) ==
    IF i > Len(locs) THEN acc
    ELSE FilterLocFrom(locs, i + 1,
             LocStep(locs[i], acc, _locale_is_available(locs[i], acc.st, inst)), inst)

\* plugin.py 244-249
LocWarnings(bad) ==
    IF bad # <<>> THEN <<Warning("unavailable_loc", bad, 0, 0)>> ELSE <<>>

\* the session after the loop over locs ended in r
LocWarned(locs, r) ==
    [valid |-> r.valid, bad |-> r.bad,
     st |-> [r.st EXCEPT !.warns = @ \o LocWarnings(r.bad),
                         !.vals = Append(@, Validation("loc", locs, r.valid, r.bad,
                                                       LocWarnings(r.bad), ""))]]

_filter_valid_locales(locs, st, inst) ==
    LocWarned(locs, FilterLocFrom(locs, 1, [valid |-> <<>>, bad |-> <<>>, st |-> st], inst))

\* a marker argument: None, a string or a list
ArgNone == [kind |-> "none", s |-> <<>>, items |-> <<>>]
ArgStr(s) == [kind |-> "str", s |-> s, items |-> <<>>]
ArgList(l) == [kind |-> "list", s |-> <<>>, items |-> l]

\* plugin.py 171-177
_as_list(value) ==
    IF value.kind = "none" THEN <<>>
    ELSE IF value.kind = "str" THEN <<value.s>>
    ELSE value.items

\* one tzshift marker's kwargs: each key absent (None) or present (Some)
Marker(d, t, l) == [disable |-> d, timezones |-> t, locales |-> l]

\* a mutant of CollectStep: disable is taken from the first marker that gives it
CollectStepDisableInnermost(m, acc) ==
    [disable |-> IF acc.disable = None /\ m.disable # None
                 THEN m.disable ELSE acc.disable,
     timezones |-> IF acc.timezones = None /\ m.timezones # None
                   THEN Some(_as_list(TheVal(m.timezones))) ELSE acc.timezones,
     locales |-> IF acc.locales = None /\ m.locales # None
                 THEN Some(_as_list(TheVal(m.locales))) ELSE acc.locales]

\* plugin.py 193-199: one marker m of the walk
CollectStep(m, acc) ==
    [disable |-> IF acc.disable = None /\ m.disable = Some(TRUE)
                 THEN Some(TRUE) ELSE acc.disable,
     timezones |-> IF acc.timezones = None /\ m.timezones # None
                   THEN Some(_as_list(TheVal(m.timezones))) ELSE acc.timezones,
     locales |-> IF acc.locales = None /\ m.locales # None
                 THEN Some(_as_list(TheVal(m.locales))) ELSE acc.locales]

\* a mutant of CollectFrom: the walk goes from the outermost marker inwards
RECURSIVE CollectFromOutermost(_, _, _)
CollectFromOutermost(nd, i, acc) ==
    IF i > Len(nd) THEN acc
    ELSE CollectFromOutermost(nd, i + 1, CollectStep(nd[Len(nd) + 1 - i], acc))

\* plugin.py 187-201: nd is the markers, the function's own first
RECURSIVE CollectFrom(_, _, _)
CollectFrom(nd, i, acc) ==
    IF i > Len(nd) THEN acc
    ELSE CollectFrom(nd, i + 1, CollectStep(nd[i], acc))

\* plugin.py 201
Collected(r) ==
    [disable |-> r.disable = Some(TRUE), timezones |-> r.timezones, locales |-> r.locales]

_collect_marker_overrides(nd) ==
    Collected(CollectFrom(nd, 1, [disable |-> None, timezones |-> None, locales |-> None]))

\* a raw tzshift_max value: int(val) succeeds with n, or raises
IntVal(n) == [isInt |-> TRUE, n |-> n]
NotAnInt == [isInt |-> FALSE, n |-> 0]

\* plugin.py 253-266: err is the UsageError raised ("" when none), cap is
\* None for "no cap"
MaxOf(val) ==
    IF ~val.isInt THEN [err |-> "must be an integer", cap |-> None]
    ELSE IF val.n < 0 THEN [err |-> "cannot be negative", cap |-> None]
    ELSE [err |-> "", cap |-> IF val.n = 0 THEN None ELSE Some(val.n)]

_get_max_combinations(cfg) ==
    MaxOf(IF cfg.cli_max # None THEN TheVal(cfg.cli_max) ELSE cfg.ini_max)

\* plugin.py 291-295
_pretty(val) ==
    IF _is_system_sentinel(Some(val), SYSTEM_TZ) \/ _is_system_sentinel(Some(val), SYSTEM_LOCALE)
    THEN sSys ELSE val

DigitChars == <<"0", "1", "2", "3", "4", "5", "6", "7", "8", "9">>

\* str(n) for n >= 0
RECURSIVE Str(_)
Str(n) == IF n < 10 THEN <<DigitChars[n + 1]>>
          ELSE Str(n \div 10) \o <<DigitChars[(n % 10) + 1]>>

\* str(n) for any integer n
StrInt(n) == IF n < 0 THEN <<"-">> \o Str(0 - n) ELSE Str(n)

RECURSIVE Spaces(_)
Spaces(n) == IF n <= 0 THEN <<>> ELSE <<" ">> \o Spaces(n - 1)

\* f"{idx:{w}d}": right-aligned in a field of width w, filled with spaces
FormatIdx(idx, w) == Spaces(w - Len(Str(idx))) \o Str(idx)

\* itertools.product(timezones, locales): the last list varies fastest
Product(tzs, locs) ==
    [k \in 1..(Len(tzs) * Len(locs)) |->
        <<tzs[((k - 1) \div Len(locs)) + 1], locs[((k - 1) % Len(locs)) + 1]>>]

\* a mutant of Combos: the product is not de-duplicated
CombosNoDedup(tzs, locs) == Product(tzs, locs)

\* plugin.py 337
Combos(tzs, locs) == Dedup(Product(tzs, locs))

\* plugin.py 349-354
Max(a, b) == IF a > b THEN a ELSE b
IdsOfWidth(combos, w) ==
    [i \in DOMAIN combos |->
        FormatIdx(i - 1, w) \o <<"|">> \o _pretty(combos[i][1])
                            \o <<"|">> \o _pretty(combos[i][2])]
Ids(combos) == IdsOfWidth(combos, Max(1, Len(StrInt(Len(combos) - 1))))

\* plugin.py 356: metafunc.parametrize("tzshift", combos, ids=ids, indirect=True)
Registration(combos) == [combos |-> combos, ids |-> Ids(combos)]

\* the executions the host makes of a test: one for each registered pair, or
\* one without request.param when nothing was registered (plugin.py 312, 316,
\* 325, 356)
HostRuns(reg) ==
    IF reg = None THEN <<None>>
    ELSE [i \in DOMAIN TheVal(reg).combos |-> Some(TheVal(reg).combos[i])]

\* the pair the fixture uses in each of them
ExecutedPairs(reg) == [i \in DOMAIN HostRuns(reg) |-> ParamPair(HostRuns(reg)[i])]

\* what the hook did: its return, its UsageError or the exception that escaped
\* it, its warnings, the registration,
\* the host calls and validator calls it made, and its locals timezones, locales
Outputs(out, err, reg, st, tzs, locs) ==
    [outcome |-> out, error |-> err, warnings |-> st.warns, registered |-> reg,
     lru |-> st.lru, locale |-> st.locale, calls |-> st.calls, vals |-> st.vals,
     timezones |-> tzs, locales |-> locs]

\* a mutant of GenCombos: the cap applies from len(combos) >= max_combos on
GenCombosOffByOne(st, tzs, locs, all, mx) ==
    IF mx.err # ""
    THEN Outputs("usage_error", mx.err, None, st, tzs, locs)
    ELSE IF mx.cap # None /\ Len(all) >= TheVal(mx.cap)
    THEN Outputs("parametrized", "", Some(Registration(SubSeq(all, 1, TheVal(mx.cap)))),
                 [st EXCEPT !.warns = Append(@, Warning("truncated", <<>>,
                                                        TheVal(mx.cap), Len(all)))],
                 tzs, locs)
    ELSE Outputs("parametrized", "", Some(Registration(all)), st, tzs, locs)

\* plugin.py 340-356: the cap, the identifiers, the registration
GenCombos(st, tzs, locs, all, mx) ==
    IF mx.err # ""
    THEN Outputs("usage_error", mx.err, None, st, tzs, locs)
    ELSE IF mx.cap # None /\ Len(all) > TheVal(mx.cap)
    THEN Outputs("parametrized", "", Some(Registration(SubSeq(all, 1, TheVal(mx.cap)))),
                 [st EXCEPT !.warns = Append(@, Warning("truncated", <<>>,
                                                        TheVal(mx.cap), Len(all)))],
                 tzs, locs)
    ELSE Outputs("parametrized", "", Some(Registration(all)), st, tzs, locs)

\* a mutant of GenChecked: an empty dimension falls back to the sentinel
GenCheckedFallback(cfg, st, tzs, locs) ==
    GenCombos(st, IF tzs = <<>> THEN <<SYSTEM_TZ>> ELSE tzs,
              IF locs = <<>> THEN <<SYSTEM_LOCALE>> ELSE locs,
              Combos(IF tzs = <<>> THEN <<SYSTEM_TZ>> ELSE tzs,
                     IF locs = <<>> THEN <<SYSTEM_LOCALE>> ELSE locs),
              _get_max_combinations(cfg))

\* plugin.py 332-340
GenChecked(cfg, st, tzs, locs) ==
    IF tzs = <<>>
    THEN Outputs("usage_error", "no valid time-zones", None, st, tzs, locs)
    ELSE IF locs = <<>>
    THEN Outputs("usage_error", "no valid locales", None, st, tzs, locs)
    ELSE GenCombos(st, tzs, locs, Combos(tzs, locs), _get_max_combinations(cfg))

\* plugin.py 330: locales = the validated override
GenLocResolved(cfg, tzs, oloc) == GenChecked(cfg, oloc.st, tzs, oloc.valid)

\* plugin.py 329-330
GenLocOverride(cfg, inst, st, ov, tzs, glocs) ==
    IF ov.locales # None
    THEN GenLocResolved(cfg, tzs, _filter_valid_locales(TheVal(ov.locales), st, inst))
    ELSE GenChecked(cfg, st, tzs, glocs)

\* plugin.py 328: timezones = the validated override, unless the validator raised
GenTzResolved(cfg, inst, st, ov, gtzs, glocs, input, otz) ==
    IF otz.raised # ""
    THEN Outputs("raised", otz.raised, None, AfterTz(st, input, otz), gtzs, glocs)
    ELSE GenLocOverride(cfg, inst, AfterTz(st, input, otz), ov, otz.valid, glocs)

\* plugin.py 323-328
GenOverrides(cfg, inst, gtzs, gloc, ov) ==
    IF ov.disable
    THEN Outputs("returned", "", None, gloc.st, gtzs, gloc.valid)
    ELSE IF ov.timezones # None
    THEN GenTzResolved(cfg, inst, gloc.st, ov, gtzs, gloc.valid, TheVal(ov.timezones),
                       _filter_valid_timezones(TheVal(ov.timezones)))
    ELSE GenLocOverride(cfg, inst, gloc.st, ov, gtzs, gloc.valid)

\* plugin.py 319-323; gtz is what validating the global time zones gave
GenGlobalLoc(cfg, nd, st0, inst, input, gtz) ==
    IF gtz.raised # ""
    THEN Outputs("raised", gtz.raised, None, AfterTz(st0, input, gtz), <<>>, <<>>)
    ELSE GenOverrides(cfg, inst, gtz.valid,
        _filter_valid_locales(get_configured_locales(cfg), AfterTz(st0, input, gtz), inst),
        _collect_marker_overrides(nd))

\* a mutant of Generate: the --no-tzshift flag is not looked at
GenerateIgnoringFlag(cfg, nd, uses, st0, inst) ==
    IF ~uses THEN Outputs("returned", "", None, st0, <<>>, <<>>)
    ELSE GenGlobalLoc(cfg, nd, st0, inst, get_configured_timezones(cfg),
             _filter_valid_timezones(get_configured_timezones(cfg)))

\* plugin.py 298-356, for one collected test; st0 carries the cache and the
\* active locale
Generate(cfg, nd, uses, st0, inst) ==
    IF cfg.no_tzshift THEN Outputs("returned", "", None, st0, <<>>, <<>>)
    ELSE IF ~uses THEN Outputs("returned", "", None, st0, <<>>, <<>>)
    ELSE GenGlobalLoc(cfg, nd, st0, inst, get_configured_timezones(cfg),
             _filter_valid_timezones(get_configured_timezones(cfg)))

\* ------------------------------------------------------- the sessions' inputs
\* --tz-timezones=" UTC ,,X/Y,UTC,system"
cliTzText == <<" ">> \o sUTC \o <<" ", ",", ",">> \o sBadZone \o <<",">> \o sUTC
             \o <<",">> \o sSystemLower
\* --tz-locales="C,xx_YY, C"
cliLocText == sC \o <<",">> \o sXx \o <<",", " ">> \o sC

TzSources == {[cli |-> None, ini |-> <<sUTC, sGMT, sZulu, sSystemWs>>],
              [cli |-> Some(cliTzText), ini |-> <<sGMT>>],
              [cli |-> None, ini |-> <<sBadZone>>]}
LocSources == {[cli |-> None, ini |-> <<sC, sDe, sSYSTEM>>],
               [cli |-> Some(cliLocText), ini |-> <<sDe>>],
               [cli |-> None, ini |-> <<sXx>>]}
MaxSources == {[cli |-> None, ini |-> IntVal(0)],
               [cli |-> None, ini |-> IntVal(3)],
               [cli |-> Some(IntVal(1)), ini |-> IntVal(12)],
               [cli |-> Some(IntVal(0)), ini |-> IntVal(3)],
               [cli |-> Some(IntVal(-1)), ini |-> IntVal(0)],
               [cli |-> None, ini |-> NotAnInt]}
ConfigsOver(tzSources) ==
    {[no_tzshift |-> n, cli_tz |-> t.cli, ini_tz |-> t.ini,
      cli_loc |-> l.cli, ini_loc |-> l.ini, cli_max |-> m.cli, ini_max |-> m.ini] :
     n \in BOOLEAN, t \in tzSources, l \in LocSources, m \in MaxSources}
Configs == ConfigsOver(TzSources)
\* the flat sessions also meet a tz_timezones list with a repeated line and an
\* entry with a trailing slash
GenConfigs == ConfigsOver(TzSources \cup {[cli |-> None, ini |-> <<sUTC, sUTC, sMalformed>>]})

DisableArgs == {None, Some(TRUE), Some(FALSE)}
TzArgs == {None, Some(ArgList(<<sBadZone>>)),
           Some(ArgList(<<sUTC, sSystemWs, sUTC, sSYSTEM>>))}
LocArgs == {None, Some(ArgList(<<sXx>>)),
            Some(ArgList(<<sDe, sSyStEmTab, sC, sDe>>))}
Markers == {Marker(d, t, l) : d \in DisableArgs, t \in TzArgs, l \in LocArgs}
\* a test under up to MaxMarkers markers, the function's own first
Nodes == UNION {[1..n -> Markers] : n \in 0..MaxMarkers}
\* a test with at most one marker, whose arguments may also be None or a string
FlatMarkers == Markers \cup
    {Marker(None, t, l) : t \in {None, Some(ArgStr(sGMT)), Some(ArgNone)},
                          l \in {None, Some(ArgStr(sC)), Some(ArgNone)}}
    \cup {Marker(d, Some(ArgList(<<sGMT, sMalformed, sBadZone>>)), None) :
             d \in {None, Some(TRUE)}}
FlatNodes == {<<>>} \cup {<<m>> : m \in FlatMarkers}

GenNone == [outcome |-> "none", error |-> "", warnings |-> <<>>, registered |-> None,
            lru |-> <<>>, locale |-> sC, calls |-> <<>>, vals |-> <<>>,
            timezones |-> <<>>, locales |-> <<>>]

GenIdle ==
    /\ gpc = "idle"
    /\ nTests = 0
    /\ test_node = <<>>
    /\ uses_fixture = FALSE
    /\ gen = GenNone
    /\ lru = <<>>

\* pytest_generate_tests runs for one collected test, drawn from pool
GenerateTests(pool, limit) ==
    /\ gpc = "idle"
    /\ nTests < limit
    /\ \E n \in pool, u \in BOOLEAN :
        /\ test_node' = n
        /\ uses_fixture' = u
        /\ gen' = Generate(config, n, u,
                      [lru |-> lru, locale |-> cur_locale, calls |-> <<>>,
                       warns |-> <<>>, vals |-> <<>>], installed)
    /\ lru' = gen'.lru
    /\ cur_locale' = gen'.locale
    /\ gpc' = IF gen'.outcome \in {"usage_error", "raised"} THEN "aborted" ELSE "collected"
    /\ nTests' = nTests + 1
    /\ UNCHANGED <<environ_TZ, installed, time_tz, has_tzset, fixVars, config>>

\* the host engine goes on to the next collected test
NextTest ==
    /\ gpc = "collected"
    /\ gpc' = "idle"
    /\ test_node' = <<>>
    /\ uses_fixture' = FALSE
    /\ gen' = GenNone
    /\ UNCHANGED <<hostVars, fixVars, config, lru, nTests>>

\* between two collections the host gains or loses a locale (never the active one)
HostDrift ==
    /\ gpc = "idle"
    /\ nTests > 0
    /\ \E l \in HostLocales \ {sC, cur_locale} :
        installed' = IF l \in installed THEN installed \ {l} ELSE installed \cup {l}
    /\ UNCHANGED <<environ_TZ, cur_locale, time_tz, has_tzset, fixVars, genVars>>

GenHost ==
    /\ installed \in {{sC}, {sC, sDe}}
    /\ cur_locale \in installed
    /\ environ_TZ = None
    /\ time_tz = None
    /\ has_tzset = TRUE

\* a session of flat tests under every configuration
GenInit ==
    /\ GenHost
    /\ FixtureIdle
    /\ config \in GenConfigs
    /\ GenIdle

GenNext ==
    \/ GenerateTests(FlatNodes, MaxTests)
    \/ NextTest
    \/ HostDrift

SpecGen == GenInit /\ [][GenNext]_vars

\* collection is over with the hook's return for the last test, and the host
\* engine starts executing test bodies; a collection that raised never gets here
StartRun ==
    /\ gpc = "collected"
    /\ gpc' = "executing"
    /\ UNCHANGED <<hostVars, fixVars, config, lru, nTests, test_node, uses_fixture, gen>>

SessionNext == GenNext \/ StartRun

\* a whole session: collection of up to MaxTests tests, then execution
SpecSession == GenInit /\ [][SessionNext]_vars

\* the configurations of the nested-scope sessions: no cap, each global list
\* from the ini file, either rich or wholly unknown to the host
ScopeConfigs ==
    {c \in Configs : /\ ~c.no_tzshift
                     /\ c.cli_max = None /\ c.ini_max = IntVal(0)
                     /\ c.cli_tz = None /\ c.cli_loc = None}

\* one test under nested markers
ScopeInit ==
    /\ GenHost
    /\ FixtureIdle
    /\ config \in ScopeConfigs
    /\ GenIdle

ScopeNext == GenerateTests(Nodes, 1)

SpecScope == ScopeInit /\ [][ScopeNext]_vars

FixInit ==
    /\ HostInit
    /\ FixtureIdle
    /\ config \in {CHOOSE c \in Configs : c.no_tzshift}
    /\ GenIdle

FixNext ==
    \/ FixtureEnter
    \/ ApplyLocale
    \/ ApplyTz
    \/ BodySetTZ
    \/ BodySetLocale
    \/ BodyEnd
    \/ Teardown

SpecFix == FixInit /\ [][FixNext]_vars

\* ------------------------------------------------------------------ claims
\* every spelling of the sentinel the sessions use: any case, surrounding
\* whitespace, or the empty string
SentinelSpellings == {sSYSTEM, sSystemLower, sSystemWs, sSyStEmTab, sEmpty}

Range(f) == {f[i] : i \in DOMAIN f}
HasOp(log, op) == \E i \in DOMAIN log : log[i].op = op
CountOp(log, op) == Cardinality({i \in DOMAIN log : log[i].op = op})

\* C1: after one full apply -> body -> restore cycle of the fixture, TZ (its
\* presence and its value) and the active locale are what they were immediately
\* before the cycle, whatever the body did; an absent TZ is absent again.
C1_RoundTrip ==
    (pc = "idle" /\ yielded # None)
        => (environ_TZ = pre.TZ /\ cur_locale = pre.locale)

\* C1 witness: a finished cycle that started without TZ, applied a real time
\* zone and a real locale, and whose body changed the host as well
C1_Witness ==
    /\ pc = "idle"
    /\ yielded # None
    /\ pre.TZ = None
    /\ tz = sUTC
    /\ loc = sDe
    /\ pre.locale = sC
    /\ bodySteps > 0
    /\ outcome = "failed"

\* C2: a non-sentinel locale the host rejects at apply time ends the run as
\* skipped, before the body; TZ is never written in that run, and on exit TZ
\* and the active locale equal the snapshot taken at entry.
C2_LateLocaleFailure ==
    (runIdx > 0 /\ pc # "apply_locale" /\ loc \notin SentinelSpellings /\ loc \notin installed)
        => /\ pc = "idle"
           /\ outcome = "skipped_by_fixture"
           /\ yielded = None
           /\ ~HasOp(trace, "yield")
           /\ ~HasOp(trace, "environ.set")
           /\ ~HasOp(trace, "environ.pop")
           /\ environ_TZ = original_tz
           /\ cur_locale = original_locale
           /\ environ_TZ = pre.TZ
           /\ cur_locale = pre.locale

\* C2 witness: a run skipped on its locale whose time zone was a real one
C2_Witness ==
    /\ pc = "idle"
    /\ outcome = "skipped_by_fixture"
    /\ loc = sXx
    /\ tz = sUTC
    /\ environ_TZ = None

\* C3: a sentinel time zone (any spelling) leaves TZ as it was through applying
\* and into the body, and the fixture never writes it before restoring; a
\* sentinel locale means no locale switch is attempted and the active locale is
\* unchanged; without request.param the run is that of (SYSTEM, SYSTEM).
C3_SentinelUntouched ==
    /\ (pc \in {"apply_locale", "apply_tz", "running"} /\ tz \in SentinelSpellings)
        => /\ ~HasOp(trace, "environ.set")
           /\ ~HasOp(trace, "environ.pop")
           /\ (bodySteps = 0 => environ_TZ = pre.TZ)
    /\ (pc \in {"apply_locale", "apply_tz", "running"} /\ loc \in SentinelSpellings)
        => /\ ~HasOp(trace, "setlocale")
           /\ (bodySteps = 0 => cur_locale = pre.locale)
    /\ (pc # "idle" /\ param = None)
        => /\ tz = sSYSTEM
           /\ loc = sSYSTEM
           /\ (pc \in {"running", "restoring"} => yielded = Some(<<sSYSTEM, sSYSTEM>>))

\* C3 witness: the body is running under a pair of two sentinel spellings, with
\* TZ set before the run
C3_Witness ==
    /\ pc = "running"
    /\ tz = sSystemWs
    /\ loc = sSyStEmTab
    /\ environ_TZ = Some(sUTC)
    /\ bodySteps = 0

\* the candidates a validator keeps, with the sentinel in its canonical spelling
Canonical(x) == IF x \in SentinelSpellings THEN sSYSTEM ELSE x
Normalized(l) == [i \in DOMAIN l |-> Canonical(l[i])]
TzAccepted(t) == t \in SentinelSpellings \/ t \in TzDb
HostAccepts(l) == l \in SentinelSpellings \/ l \in installed
CacheAccepts(l) == l \in SentinelSpellings \/ (l \in DOMAIN lru /\ lru[l])
ExpectedTz(l) == Normalized(SelectSeq(l, TzAccepted))
ExpectedLoc(l) == Normalized(SelectSeq(l, HostAccepts))

MinOf(S) == CHOOSE i \in S : \A j \in S : i <= j
DisabledAnywhere(nd) == \E i \in DOMAIN nd : nd[i].disable = Some(TRUE)
TzScopes(nd) == {i \in DOMAIN nd : nd[i].timezones # None}
LocScopes(nd) == {i \in DOMAIN nd : nd[i].locales # None}
\* the raw list a dimension resolves from: the innermost override, else the
\* global list (the nested-scope sessions give lists in the ini file and in
\* the markers)
TzSource(nd) ==
    IF TzScopes(nd) = {} THEN config.ini_tz
    ELSE TheVal(nd[MinOf(TzScopes(nd))].timezones).items
LocSource(nd) ==
    IF LocScopes(nd) = {} THEN config.ini_loc
    ELSE TheVal(nd[MinOf(LocScopes(nd))].locales).items
EnabledTest == gpc # "idle" /\ uses_fixture /\ ~DisabledAnywhere(test_node)

C5_ScopePrecedence ==
    EnabledTest
        => /\ gen.timezones = ExpectedTz(TzSource(test_node))
           /\ gen.locales = ExpectedLoc(LocSource(test_node))

\* C5 witness: two scopes give different lists for both dimensions, and the
\* test is parametrized
C5_Witness ==
    /\ EnabledTest
    /\ gen.outcome = "parametrized"
    /\ Len(test_node) = 2
    /\ TzScopes(test_node) = {1, 2}
    /\ LocScopes(test_node) = {1, 2}
    /\ test_node[1].timezones # test_node[2].timezones
    /\ test_node[1].locales # test_node[2].locales
    /\ ExpectedTz(config.ini_tz) # gen.timezones

\* the tzshift_max in force: the command line's, else the ini file's
EffCap == IF config.cli_max # None THEN TheVal(config.cli_max) ELSE config.ini_max

\* C6: with --no-tzshift a test using the fixture gets no validation, no
\* warning and no registration, and runs once with (SYSTEM, SYSTEM).
C6_NoTzshift ==
    (config.no_tzshift /\ gpc # "idle" /\ uses_fixture)
        => /\ gen.outcome = "returned"
           /\ gpc = "collected"
           /\ gen.calls = <<>>
           /\ gen.vals = <<>>
           /\ gen.warnings = <<>>
           /\ lru = <<>>
           /\ gen.registered = None
           /\ ExecutedPairs(gen.registered) = <<<<sSYSTEM, sSYSTEM>>>>

\* C6 witness: --no-tzshift with overrides on the test and a negative cap
C6_Witness ==
    /\ config.no_tzshift
    /\ gpc = "collected"
    /\ uses_fixture
    /\ Len(test_node) = 1
    /\ test_node[1].timezones # None
    /\ test_node[1].locales # None
    /\ EffCap.isInt /\ EffCap.n < 0
    /\ config.cli_tz # None

FirstIdx(l, x) == MinOf({i \in DOMAIN l : l[i] = x})
\* c lists Range(T) \X Range(L) once each, time zones in order of first
\* occurrence and, within one time zone, locales in order of first occurrence
IsUncappedGeneration(c, T, L) ==
    /\ Range(c) = Range(T) \X Range(L)
    /\ \A i, j \in DOMAIN c : i < j =>
        /\ c[i] # c[j]
        /\ \/ FirstIdx(T, c[i][1]) < FirstIdx(T, c[j][1])
           \/ /\ c[i][1] = c[j][1]
              /\ FirstIdx(L, c[i][2]) < FirstIdx(L, c[j][2])
NumCombos(T, L) == Cardinality(Range(T)) * Cardinality(Range(L))
Registered == TheVal(gen.registered)

\* C7: with cap 0 the registered runs are the product of the validated lists,
\* time zone major, duplicates removed keeping the first; their number is
\* (distinct time zones) x (distinct locales) and the identifiers are unique.
C7_UncappedGeneration ==
    (gen.outcome = "parametrized" /\ EffCap.n = 0)
        => /\ IsUncappedGeneration(Registered.combos, gen.timezones, gen.locales)
           /\ Len(Registered.combos) = NumCombos(gen.timezones, gen.locales)
           /\ Len(Registered.ids) = Len(Registered.combos)
           /\ \A i, j \in DOMAIN Registered.ids :
                i # j => Registered.ids[i] # Registered.ids[j]

\* C7 witness: an uncapped registration from a time-zone list with repeats
C7_Witness ==
    /\ gen.outcome = "parametrized"
    /\ EffCap.n = 0
    /\ Len(gen.timezones) > Cardinality(Range(gen.timezones))
    /\ Len(gen.locales) > Cardinality(Range(gen.locales))
    /\ Len(Registered.combos) >= 4

Truncations == SelectSeq(gen.warnings, LAMBDA w : w.kind = "truncated")

\* C8: a cap c with 0 < c < N keeps the first c combinations of the uncapped
\* order and warns once "c of N"; c = 0 or c >= N keeps all N and does not warn.
C8_Truncation ==
    gen.outcome = "parametrized"
        => IF 0 < EffCap.n /\ EffCap.n < NumCombos(gen.timezones, gen.locales)
           THEN /\ Registered.combos =
                     SubSeq(Combos(gen.timezones, gen.locales), 1, EffCap.n)
                /\ Len(Registered.combos) = EffCap.n
                /\ Truncations = <<Warning("truncated", <<>>, EffCap.n,
                                           NumCombos(gen.timezones, gen.locales))>>
           ELSE /\ Registered.combos = Combos(gen.timezones, gen.locales)
                /\ Len(Registered.combos) = NumCombos(gen.timezones, gen.locales)
                /\ Truncations = <<>>

\* C8 witness: 12 combinations cut to 3
C8_Witness ==
    /\ gen.outcome = "parametrized"
    /\ EffCap.n = 3
    /\ NumCombos(gen.timezones, gen.locales) = 12
    /\ Len(Registered.combos) = 3
    /\ Len(Truncations) = 1

RECURSIVE WarningsOf(_)
WarningsOf(vs) == IF vs = <<>> THEN <<>> ELSE Head(vs).warns \o WarningsOf(Tail(vs))
Accepted(e, x) == IF e.kind = "tz" THEN TzAccepted(x) ELSE CacheAccepts(x)
Rejections == SelectSeq(gen.warnings, LAMBDA w : w.kind # "truncated")

\* C9: every validator call returns; what it returns is the accepted candidates
\* in input order, the sentinel canonical; every candidate is accepted or
\* rejected; the call warns once, naming all the rejected, exactly when it
\* rejected one.
C9_Validation ==
    /\ \A k \in DOMAIN gen.vals :
        /\ gen.vals[k].raised = ""
        /\ gen.vals[k].valid =
             Normalized(SelectSeq(gen.vals[k].input, LAMBDA x : Accepted(gen.vals[k], x)))
        /\ gen.vals[k].bad =
             SelectSeq(gen.vals[k].input, LAMBDA x : ~Accepted(gen.vals[k], x))
        /\ Len(gen.vals[k].valid) + Len(gen.vals[k].bad) = Len(gen.vals[k].input)
        /\ gen.vals[k].warns =
             IF gen.vals[k].bad = <<>> THEN <<>>
             ELSE <<Warning(IF gen.vals[k].kind = "tz" THEN "unknown_tz"
                            ELSE "unavailable_loc", gen.vals[k].bad, 0, 0)>>
    /\ Rejections = WarningsOf(gen.vals)

\* C9, the failing case: a time-zone list holding a key with a trailing slash
\* after a valid and before an unknown one; the call raises ValueError, returns
\* no list and warns of nothing, and the collection ends there
C9_Witness ==
    /\ gen.outcome = "raised"
    /\ gen.error = "ValueError"
    /\ gpc = "aborted"
    /\ \E k \in DOMAIN gen.vals :
        /\ gen.vals[k].kind = "tz"
        /\ gen.vals[k].input = <<sGMT, sMalformed, sBadZone>>
        /\ gen.vals[k].raised = "ValueError"
        /\ gen.vals[k].warns = <<>>
    /\ gen.registered = None

\* C10: an enabled test whose resolved time-zone or locale list is empty gets a
\* configuration error and no registration, with no fallback; a registered
\* test has at least one run.
C10_EmptyDimension ==
    EnabledTest
        => /\ (ExpectedTz(TzSource(test_node)) = <<>> \/ ExpectedLoc(LocSource(test_node)) = <<>>)
                => /\ gen.outcome = "usage_error"
                   /\ gpc = "aborted"
                   /\ gen.registered = None
           /\ gen.registered # None => Len(Registered.combos) >= 1

\* C10 witness: the innermost time-zone override is wholly rejected while the
\* global list and an outer override have valid entries
C10_Witness ==
    /\ EnabledTest
    /\ gen.outcome = "usage_error"
    /\ Len(test_node) = 2
    /\ TzScopes(test_node) = {1, 2}
    /\ ExpectedTz(TzSource(test_node)) = <<>>
    /\ ExpectedTz(config.ini_tz) # <<>>
    /\ ExpectedTz(TheVal(test_node[2].timezones).items) # <<>>
    /\ gen.locales # <<>>

\* the raw tzshift_max is negative or no integer
BadCap == ~EffCap.isInt \/ EffCap.n < 0

\* C11: in every session whose tzshift_max (command line, else ini file) is
\* negative or not an integer, a configuration error is raised before any test
\* body executes: such a session never starts executing.
C11_CapValidation == BadCap => gpc # "executing"

\* C11, the failing case: the engine is on (no --no-tzshift), the cap is bad,
\* the one test using the fixture is disabled by its marker, and execution
\* starts with no error raised
C11_Witness ==
    /\ BadCap
    /\ gpc = "executing"
    /\ ~config.no_tzshift
    /\ uses_fixture
    /\ DisabledAnywhere(test_node)
    /\ gen.outcome = "returned"
    /\ gen.error = ""

\* the decimal digits of n, zero-padded to exactly w places
RECURSIVE ZeroPadded(_, _)
ZeroPadded(n, w) ==
    IF w <= 1 THEN <<DigitChars[(n % 10) + 1]>>
    ELSE ZeroPadded(n \div 10, w - 1) \o <<DigitChars[(n % 10) + 1]>>
RECURSIVE DecimalWidth(_)
DecimalWidth(n) == IF n < 10 THEN 1 ELSE 1 + DecimalWidth(n \div 10)
Pretty(x) == IF x \in SentinelSpellings THEN sSys ELSE x
ExpectedId(i, n, pair) ==
    ZeroPadded(i, DecimalWidth(n - 1)) \o <<"|">> \o Pretty(pair[1])
                                       \o <<"|">> \o Pretty(pair[2])

\* C12: in a registration of n runs the identifier of run i (from 0) is i
\* zero-padded to the decimal width of n-1, then the pretty time zone, then the
\* pretty locale, joined by "|"; a sentinel is rendered "sys".
C12_IdFormat ==
    gen.outcome = "parametrized"
        => \A i \in DOMAIN Registered.ids :
             Registered.ids[i] =
                ExpectedId(i - 1, Len(Registered.combos), Registered.combos[i])

\* C12, the failing case: twelve runs, so a two-place index; run 0 is
\* identified " 0|UTC|C", padded with a space
C12_Witness ==
    /\ gen.outcome = "parametrized"
    /\ Len(Registered.combos) = 12
    /\ Registered.combos[1] = <<sUTC, sC>>
    /\ Registered.ids[1] = <<" ", "0", "|">> \o sUTC \o <<"|">> \o sC
    /\ Registered.ids[12] = <<"1", "1", "|">> \o sSys \o <<"|">> \o sSys

\* the places where the pieces of a comma-separated text begin and end
Boundaries(t) == {0, Len(t) + 1} \cup {i \in DOMAIN t : t[i] = ","}
NextBoundary(t, b) == MinOf({c \in Boundaries(t) : c > b})
KthBoundary(t, k) ==
    CHOOSE b \in Boundaries(t) : Cardinality({c \in Boundaries(t) : c < b}) = k - 1
Inked(x) == {i \in DOMAIN x : x[i] \notin Whitespace}
MaxOfSet(S) == CHOOSE i \in S : \A j \in S : i >= j
Trimmed(x) == IF Inked(x) = {} THEN <<>> ELSE SubSeq(x, MinOf(Inked(x)), MaxOfSet(Inked(x)))
Pieces(t) ==
    [k \in 1..(Cardinality(Boundaries(t)) - 1) |->
        Trimmed(SubSeq(t, KthBoundary(t, k) + 1, NextBoundary(t, KthBoundary(t, k)) - 1))]
IsFirst(l, i) == \A j \in 1..(i - 1) : l[j] # l[i]
RECURSIVE Pick(_, _)
\* the entries of l at the indexes of I, in order
Pick(l, I) == IF I = {} THEN <<>> ELSE <<l[MinOf(I)]>> \o Pick(l, I \ {MinOf(I)})
FirstOccurrences(l) == Pick(l, {i \in DOMAIN l : IsFirst(l, i)})
ExpectedCandidates(cli, ini) ==
    FirstOccurrences(IF cli # None
                     THEN SelectSeq(Pieces(TheVal(cli)), LAMBDA x : x # <<>>)
                     ELSE ini)
EngineRan == gpc # "idle" /\ uses_fixture /\ ~config.no_tzshift

\* C13: each global list is the command-line string when one is given (split
\* on commas, entries trimmed, empty entries dropped; the ini list ignored),
\* else the ini list; either way de-duplicated keeping first occurrences; and
\* this is the list the hook validates.
C13_SourcePrecedence ==
    /\ get_configured_timezones(config) = ExpectedCandidates(config.cli_tz, config.ini_tz)
    /\ get_configured_locales(config) = ExpectedCandidates(config.cli_loc, config.ini_loc)
    /\ EngineRan =>
        /\ gen.vals[1].kind = "tz"
        /\ gen.vals[1].input = ExpectedCandidates(config.cli_tz, config.ini_tz)
        /\ gen.vals[1].raised = "" =>
            /\ gen.vals[2].kind = "loc"
            /\ gen.vals[2].input = ExpectedCandidates(config.cli_loc, config.ini_loc)

\* C13 witness: --tz-timezones=" UTC ,,X/Y,UTC,system" and
\* --tz-locales="C,xx_YY, C" over ini lists GMT and de_DE
C13_Witness ==
    /\ EngineRan
    /\ config.cli_tz = Some(cliTzText) /\ config.ini_tz = <<sGMT>>
    /\ config.cli_loc = Some(cliLocText) /\ config.ini_loc = <<sDe>>
    /\ gen.vals[1].input = <<sUTC, sBadZone, sSystemLower>>
    /\ gen.vals[2].input = <<sC, sXx>>

\* the calls of the restore step: the previous locale, TZ put back or removed,
\* the time subsystem re-synced
RestoreCalls ==
    <<Call("setlocale", Some(original_locale), TRUE)>>
    \o (IF original_tz = None THEN <<Call("environ.pop", None, TRUE)>>
        ELSE <<Call("environ.set", original_tz, TRUE)>>)
    \o TzsetCalls

\* C14: an execution that has taken its snapshot returns to idle only through
\* the restore step, which runs once then: from restoring, making the restore
\* calls and leaving TZ and the locale as the snapshot has them; applying and
\* running never go back to idle directly.
C14_RestoreOnce ==
    [][(pc # "idle" /\ pc' = "idle")
         => /\ pc = "restoring"
            /\ trace' = trace \o RestoreCalls
            /\ cur_locale' = original_locale
            /\ environ_TZ' = original_tz]_vars

\* C14, the failing case: an execution took its snapshot, abstained while
\* applying the locale, and is idle again without any restore call made
C14_Witness ==
    /\ pc = "idle"
    /\ runIdx > 0
    /\ outcome = "skipped_by_fixture"
    /\ trace = <<Call("environ.get", None, TRUE), Call("setlocale.query", None, TRUE),
                 Call("setlocale", Some(loc), FALSE), Call("skip", Some(loc), TRUE)>>
    /\ environ_TZ # None

DisableScopes(nd) == {i \in DOMAIN nd : nd[i].disable # None}
\* the value of disable at the innermost directive that gives one
InnermostDisable(nd) ==
    IF DisableScopes(nd) = {} THEN FALSE
    ELSE TheVal(nd[MinOf(DisableScopes(nd))].disable)

\* C15: the resolved disable flag of a test is the value given by the
\* innermost directive that specifies disable, and a test that resolves to not
\* disabled goes on to parametrization (it is registered or gets its
\* configuration error) instead of returning unparametrized.
C15_DisableInnermost ==
    (gpc # "idle" /\ uses_fixture)
        => /\ _collect_marker_overrides(test_node).disable = InnermostDisable(test_node)
           /\ ~InnermostDisable(test_node) => gen.outcome # "returned"

\* C15, the failing case: disable=False on the function under disable=True
\* on the class; the test is treated as disabled and is not parametrized
C15_Witness ==
    /\ gpc = "collected"
    /\ uses_fixture
    /\ Len(test_node) = 2
    /\ test_node[1] = Marker(Some(FALSE), None, None)
    /\ test_node[2] = Marker(Some(TRUE), None, None)
    /\ ExpectedTz(config.ini_tz) # <<>>
    /\ ExpectedLoc(config.ini_loc) # <<>>
    /\ gen.outcome = "returned"
    /\ gen.registered = None

\* C16: for a test whose resolved disable flag is true the hook validates
\* nothing (no time-zone lookup, no locale probe, no validator call, no
\* warning) and registers no run, whatever the global lists hold.
C16_DisabledNoValidation ==
    (EngineRan /\ _collect_marker_overrides(test_node).disable)
        => /\ gen.calls = <<>>
           /\ gen.vals = <<>>
           /\ gen.warnings = <<>>
           /\ gen.registered = None
           /\ gen.outcome = "returned"

\* C16, the failing case: a disabled test in a session whose global lists hold
\* unknown names; both lists are validated, the host is probed and both
\* warnings are emitted before disable is looked at
C16_Witness ==
    /\ EngineRan
    /\ test_node = <<Marker(Some(TRUE), None, None)>>
    /\ gen.outcome = "returned"
    /\ Len(gen.vals) = 2
    /\ HasOp(gen.calls, "ZoneInfo")
    /\ HasOp(gen.calls, "setlocale")
    /\ Len(gen.warnings) = 2
    /\ gen.warnings[1].kind = "unknown_tz"
    /\ gen.warnings[2].kind = "unavailable_loc"

\* every probe in calls is the snapshot query, the attempt, and at once the
\* switch back to the locale that was active before
ProbesRolledBack(calls, before) ==
    /\ \A i \in DOMAIN calls :
         calls[i].op = "setlocale.query"
            => /\ i + 2 <= Len(calls)
               /\ calls[i + 1].op = "setlocale"
               /\ calls[i + 2] = Call("setlocale", Some(before), TRUE)
    /\ CountOp(calls, "setlocale") = 2 * CountOp(calls, "setlocale.query")

\* C17: across one run of the hook, with all its validator calls, the active
\* locale, the TZ variable and the process time zone stay what they were; each
\* probe, accepted or rejected, is followed at once by the switch back; the
\* validation makes no call on TZ.
C17_ValidationLeavesHost ==
    [][(gpc = "idle" /\ gpc' # "idle")
         => /\ cur_locale' = cur_locale
            /\ environ_TZ' = environ_TZ
            /\ time_tz' = time_tz
            /\ ProbesRolledBack(gen'.calls, cur_locale)
            /\ \A i \in DOMAIN gen'.calls :
                 gen'.calls[i].op \in {"ZoneInfo", "setlocale.query", "setlocale"}]_vars

\* C17 witness: with de_DE active, the validation probed C (accepted) and
\* xx_YY (rejected), and de_DE is still the active locale
C17_Witness ==
    /\ gpc # "idle"
    /\ cur_locale = sDe
    /\ \E i \in DOMAIN gen.calls : gen.calls[i] = Call("setlocale", Some(sC), TRUE)
    /\ \E i \in DOMAIN gen.calls : gen.calls[i] = Call("setlocale", Some(sXx), FALSE)
    /\ gen.calls[Len(gen.calls)] = Call("setlocale", Some(sDe), TRUE)

\* the places in calls where the host is asked to switch to the candidate l
Attempts(calls, l) ==
    {i \in DOMAIN calls : /\ i > 1
                          /\ calls[i - 1].op = "setlocale.query"
                          /\ calls[i].op = "setlocale"
                          /\ calls[i].arg = Some(l)}
LocaleCandidates == {sC, sDe, sXx, sSYSTEM, sSyStEmTab, sEmpty}

\* C18: over the hook runs of one process, a candidate string is probed on the
\* host at most once: never again once it is in the cache, and at most once in
\* the run that first meets it; the cache only grows; and a validation of a
\* string cached before the run rejects it exactly when the cached result is
\* false, whatever the host has installed by then.
C18_ProbeMemoized ==
    [][(gpc = "idle" /\ gpc' # "idle")
         => /\ \A l \in DOMAIN lru : /\ l \in DOMAIN lru' /\ lru'[l] = lru[l]
                                     /\ Attempts(gen'.calls, l) = {}
            /\ \A l \in LocaleCandidates : Cardinality(Attempts(gen'.calls, l)) <= 1
            /\ \A k \in DOMAIN gen'.vals :
                 gen'.vals[k].kind = "loc"
                    => \A i \in DOMAIN gen'.vals[k].input :
                         gen'.vals[k].input[i] \in DOMAIN lru
                            => (gen'.vals[k].input[i] \in Range(gen'.vals[k].bad)
                                  <=> ~lru[gen'.vals[k].input[i]])]_vars

\* C18 witness: de_DE was probed and accepted for an earlier test, the host
\* lost it since, and the second test's locale list with de_DE in it twice is
\* validated with no probe of de_DE and de_DE accepted
C18_Witness ==
    /\ gpc # "idle"
    /\ nTests = 2
    /\ sDe \notin installed
    /\ sDe \in DOMAIN lru /\ lru[sDe]
    /\ Attempts(gen.calls, sDe) = {}
    /\ \E k \in DOMAIN gen.vals :
        /\ gen.vals[k].kind = "loc"
        /\ gen.vals[k].input = <<sDe, sSyStEmTab, sC, sDe>>
        /\ gen.vals[k].valid = <<sDe, sSYSTEM, sC, sDe>>

\* C19: executions of the fixture follow one another: none begins while
\* another is between its snapshot and its return to idle; each takes as
\* snapshot the host state of that moment, which from the second on is the
\* snapshot of the one before; and each, abstaining or not, returns to idle
\* with TZ and the locale as its snapshot has them.
C19_SequentialIsolation ==
    [][/\ runIdx' # runIdx => (pc = "idle" /\ pc' # "idle")
       /\ (pc = "idle" /\ pc' # "idle")
            => /\ pre' = [TZ |-> environ_TZ, locale |-> cur_locale]
               /\ original_tz' = environ_TZ
               /\ original_locale' = cur_locale
               /\ runIdx > 0 => pre' = pre
       /\ (pc # "idle" /\ pc' = "idle")
            => /\ environ_TZ' = pre.TZ
               /\ cur_locale' = pre.locale]_vars

\* C19 witness: the second of two executions, for (UTC, de_DE), has had its
\* body change the host and fail, and the host is back at the snapshot
C19_Witness ==
    /\ runIdx = 2
    /\ pc = "idle"
    /\ outcome = "failed"
    /\ bodySteps > 0
    /\ tz = sUTC /\ loc = sDe
    /\ pre = [TZ |-> Some(sZulu), locale |-> sC]
    /\ environ_TZ = Some(sZulu) /\ cur_locale = sC

====
